---- MODULE Spec2Model ----
(***************************************************************************)
(* A model of the date-extraction engine of src/extract_calendar.py:       *)
(* _clean_line, the six regular expressions, _extract_month_year,          *)
(* _extract_dates_from_line, _expand_range, _lines_from_tables,            *)
(* parse_events_from_text and the page loop of extract_events.             *)
(*                                                                         *)
(* Text.  A Python str is modelled as a sequence of symbols.  A symbol is  *)
(* one character (a digit, a whitespace character, a punctuation mark) or  *)
(* one maximal run of letters (a word such as "march" or "Spring").  No    *)
(* input puts a letter next to a month name, so a word symbol is matched   *)
(* by a month alternative of a regular expression exactly when the whole   *)
(* run of letters is that month name, which is what the \b on both sides   *)
(* of the alternation demands.  Offsets are Python's: offset p lies before *)
(* the character s[p+1], and s[a:b] is SubSeq(s, a+1, b).                  *)
(***************************************************************************)
EXTENDS Integers, Sequences, FiniteSets, TLC

\* Optional[int] = None (a value no month, year or offset takes)
None == -1

Digit == {"0", "1", "2", "3", "4", "5", "6", "7", "8", "9"}

\* the characters \s matches and str.strip() strips, among those of the inputs
Whitespace == {" ", "\t", "\n"}

Punct == {",", "-", "/", ".", ":"}

\* \w : digits and letters (every symbol that is neither whitespace nor punctuation)
IsWordChar(c) == c \notin (Whitespace \cup Punct)

MONTHS ==
    [jan |-> 1, january |-> 1, feb |-> 2, february |-> 2, mar |-> 3, march |-> 3,
     apr |-> 4, april |-> 4, may |-> 5, jun |-> 6, june |-> 6, jul |-> 7, july |-> 7,
     aug |-> 8, august |-> 8, sep |-> 9, sept |-> 9, september |-> 9,
     oct |-> 10, october |-> 10, nov |-> 11, november |-> 11,
     dec |-> 12, december |-> 12]

\* str.lower() on the words the inputs spell with capitals
lower(token) ==
    CASE token = "March" -> "march"
      [] token = "April" -> "april"
      [] token = "Feb" -> "feb"
      [] token = "SEPT" -> "sept"
      [] OTHER -> token

\* a word one of the month alternatives matches under re.IGNORECASE
IsMonthWord(c) == lower(c) \in DOMAIN MONTHS

DigitValue(c) ==
    CASE c = "0" -> 0 [] c = "1" -> 1 [] c = "2" -> 2 [] c = "3" -> 3 [] c = "4" -> 4
      [] c = "5" -> 5 [] c = "6" -> 6 [] c = "7" -> 7 [] c = "8" -> 8 [] c = "9" -> 9

RECURSIVE int(_)
\* int(str) of a string of decimal digits
int(raw) ==
    IF raw = <<>> THEN 0
    ELSE 10 * int(SubSeq(raw, 1, Len(raw) - 1)) + DigitValue(raw[Len(raw)])

Min(S) == CHOOSE x \in S : \A y \in S : x <= y

\* s[a:b]
Slice(s, a, b) == SubSeq(s, a + 1, b)

\* \b at offset p
WordBoundary(s, p) ==
    LET before == p >= 1 /\ IsWordChar(s[p])
        after == p < Len(s) /\ IsWordChar(s[p + 1])
    IN  before # after

\* \d{n} at offset p
HasDigits(s, p, n) == p + n <= Len(s) /\ \A k \in 1..n : s[p + k] \in Digit

RECURSIVE SkipWhile(_, _, _)
\* the offset a greedy run of characters of class cls, starting at p, ends at
SkipWhile(s, p, cls) ==
    IF p < Len(s) /\ s[p + 1] \in cls THEN SkipWhile(s, p + 1, cls) ELSE p

\* a failed match; a group that did not take part is the empty string
NoMatch == [start |-> None, end |-> None, g1 |-> <<>>, g2 |-> <<>>, g3 |-> <<>>]

Match(a, b, x, y, z) == [start |-> a, end |-> b, g1 |-> x, g2 |-> y, g3 |-> z]

\* MONTH_RE matched at offset p: \b(month)\b
MONTH_RE(s, p) ==
    IF p < Len(s) /\ IsMonthWord(s[p + 1]) /\ WordBoundary(s, p) /\ WordBoundary(s, p + 1)
    THEN Match(p, p + 1, <<s[p + 1]>>, <<>>, <<>>)
    ELSE NoMatch

\* YEAR_RE matched at offset p: \b(20\d{2})\b
YEAR_RE(s, p) ==
    IF /\ WordBoundary(s, p)
       /\ HasDigits(s, p, 4)
       /\ s[p + 1] = "2"
       /\ s[p + 2] = "0"
       /\ WordBoundary(s, p + 4)
    THEN Match(p, p + 4, Slice(s, p, p + 4), <<>>, <<>>)
    ELSE NoMatch

\* NUMERIC_DATE_RE matched at offset p: \b(\d{1,2})/(\d{1,2})(?:/(\d{2,4}))?\b
\* Greedy with backtracking: the longer month, then the longer day, then the
\* longest year before no year at all (a year length of 0).
NUMERIC_DATE_RE(s, p) ==
    LET cands == << <<2, 2, 4>>, <<2, 2, 3>>, <<2, 2, 2>>, <<2, 2, 0>>,
                    <<2, 1, 4>>, <<2, 1, 3>>, <<2, 1, 2>>, <<2, 1, 0>>,
                    <<1, 2, 4>>, <<1, 2, 3>>, <<1, 2, 2>>, <<1, 2, 0>>,
                    <<1, 1, 4>>, <<1, 1, 3>>, <<1, 1, 2>>, <<1, 1, 0>> >>
        d(c) == p + c[1] + 1
        e(c) == d(c) + c[2]
        Ok(c) ==
            /\ WordBoundary(s, p)
            /\ HasDigits(s, p, c[1])
            /\ p + c[1] < Len(s)
            /\ s[p + c[1] + 1] = "/"
            /\ HasDigits(s, d(c), c[2])
            /\ IF c[3] = 0
               THEN WordBoundary(s, e(c))
               ELSE /\ e(c) < Len(s)
                    /\ s[e(c) + 1] = "/"
                    /\ HasDigits(s, e(c) + 1, c[3])
                    /\ WordBoundary(s, e(c) + 1 + c[3])
        hits == {k \in 1..Len(cands) : Ok(cands[k])}
    IN  IF hits = {} THEN NoMatch
        ELSE LET c == cands[Min(hits)]
             IN  Match(p,
                       IF c[3] = 0 THEN e(c) ELSE e(c) + 1 + c[3],
                       Slice(s, p, p + c[1]),
                       Slice(s, d(c), e(c)),
                       IF c[3] = 0 THEN <<>> ELSE Slice(s, e(c) + 1, e(c) + 1 + c[3]))

\* MONTH_NAME_DATE_RE matched at offset p:
\* \b(month)\b\s+(\d{1,2})(?:[,\s]+(20\d{2}))?\b
MONTH_NAME_DATE_RE(s, p) ==
    IF ~(p < Len(s) /\ IsMonthWord(s[p + 1]) /\ WordBoundary(s, p) /\ WordBoundary(s, p + 1))
    THEN NoMatch
    ELSE LET d == SkipWhile(s, p + 1, Whitespace)
             DayOk(n) == d > p + 1 /\ HasDigits(s, d, n)
             y(n) == SkipWhile(s, d + n, {","} \cup Whitespace)
             YearOk(n) ==
                 /\ y(n) > d + n
                 /\ HasDigits(s, y(n), 4)
                 /\ s[y(n) + 1] = "2"
                 /\ s[y(n) + 2] = "0"
                 /\ WordBoundary(s, y(n) + 4)
             WithYear(n) ==
                 Match(p, y(n) + 4, <<s[p + 1]>>, Slice(s, d, d + n), Slice(s, y(n), y(n) + 4))
             NoYear(n) == Match(p, d + n, <<s[p + 1]>>, Slice(s, d, d + n), <<>>)
         IN  IF DayOk(2) /\ YearOk(2) THEN WithYear(2)
             ELSE IF DayOk(2) /\ WordBoundary(s, d + 2) THEN NoYear(2)
             ELSE IF DayOk(1) /\ YearOk(1) THEN WithYear(1)
             ELSE IF DayOk(1) /\ WordBoundary(s, d + 1) THEN NoYear(1)
             ELSE NoMatch

\* DAY_MONTH_NAME_RE matched at offset p: \b(\d{1,2})\s+(month)\b
DAY_MONTH_NAME_RE(s, p) ==
    LET m(n) == SkipWhile(s, p + n, Whitespace)
        Ok(n) ==
            /\ WordBoundary(s, p)
            /\ HasDigits(s, p, n)
            /\ m(n) > p + n
            /\ m(n) < Len(s)
            /\ IsMonthWord(s[m(n) + 1])
            /\ WordBoundary(s, m(n) + 1)
        hit(n) == Match(p, m(n) + 1, Slice(s, p, p + n), <<s[m(n) + 1]>>, <<>>)
    IN  IF Ok(2) THEN hit(2) ELSE IF Ok(1) THEN hit(1) ELSE NoMatch

\* RANGE_RE matched at offset p: \b(\d{1,2})\s*-\s*(\d{1,2})\b
RANGE_RE(s, p) ==
    LET cands == << <<2, 2>>, <<2, 1>>, <<1, 2>>, <<1, 1>> >>
        h(c) == SkipWhile(s, p + c[1], Whitespace)
        d(c) == SkipWhile(s, h(c) + 1, Whitespace)
        Ok(c) ==
            /\ WordBoundary(s, p)
            /\ HasDigits(s, p, c[1])
            /\ h(c) < Len(s)
            /\ s[h(c) + 1] = "-"
            /\ HasDigits(s, d(c), c[2])
            /\ WordBoundary(s, d(c) + c[2])
        hits == {k \in 1..Len(cands) : Ok(cands[k])}
    IN  IF hits = {} THEN NoMatch
        ELSE LET c == cands[Min(hits)]
             IN  Match(p, d(c) + c[2], Slice(s, p, p + c[1]), Slice(s, d(c), d(c) + c[2]), <<>>)

\* the compiled pattern named re, tried at offset p of s
match_at(re, s, p) ==
    CASE re = "MONTH_RE" -> MONTH_RE(s, p)
      [] re = "YEAR_RE" -> YEAR_RE(s, p)
      [] re = "NUMERIC_DATE_RE" -> NUMERIC_DATE_RE(s, p)
      [] re = "MONTH_NAME_DATE_RE" -> MONTH_NAME_DATE_RE(s, p)
      [] re = "DAY_MONTH_NAME_RE" -> DAY_MONTH_NAME_RE(s, p)
      [] re = "RANGE_RE" -> RANGE_RE(s, p)

\* the match at the least offset among ms, the matches tried offset by offset
leftmost(ms) ==
    IF \A p \in DOMAIN ms : ms[p].start = None THEN NoMatch
    ELSE ms[Min({p \in DOMAIN ms : ms[p].start # None})]

\* Pattern.search(s, pos): the leftmost match starting at or after pos
search(re, s, pos) == leftmost([p \in pos..Len(s) |-> match_at(re, s, p)])

RECURSIVE finditer_from(_, _, _)
RECURSIVE matches_after(_, _, _)
\* the matches from offset pos on: the leftmost one, then those after its end
finditer_from(re, s, pos) == matches_after(re, s, search(re, s, pos))

matches_after(re, s, m) ==
    IF m.start = None THEN <<>> ELSE <<m>> \o finditer_from(re, s, m.end)

\* Pattern.finditer(s): the non-overlapping matches, left to right
finditer(re, s) == finditer_from(re, s, 0)

(***************************************************************************)
(* The pure functions of the engine.                                       *)
(***************************************************************************)

RECURSIVE sub_whitespace(_)
\* re.sub(r"\s+", " ", line): every maximal run of whitespace becomes one space
sub_whitespace(s) ==
    IF s = <<>> THEN <<>>
    ELSE IF s[1] \in Whitespace
         THEN <<" ">> \o sub_whitespace(Slice(s, SkipWhile(s, 0, Whitespace), Len(s)))
         ELSE <<s[1]>> \o sub_whitespace(Tail(s))

RECURSIVE rstrip(_)
rstrip(s) ==
    IF s # <<>> /\ s[Len(s)] \in Whitespace THEN rstrip(SubSeq(s, 1, Len(s) - 1)) ELSE s

\* str.strip()
strip(s) == rstrip(Slice(s, SkipWhile(s, 0, Whitespace), Len(s)))

\* _clean_line without its .strip()
_clean_line_unstripped(line) == sub_whitespace(line)

_clean_line(line) == strip(sub_whitespace(line))

\* Python's truth value of an Optional[int]
Truthy(x) == x # None /\ x # 0

_month_from_token(token) ==
    IF token = <<>> THEN None
    ELSE IF lower(token[1]) \in DOMAIN MONTHS THEN MONTHS[lower(token[1])] ELSE None

_coerce_year(raw_year, default_year) ==
    IF raw_year # <<>>
    THEN LET year == int(raw_year)
         IN  IF year < 100 THEN 2000 + year ELSE year
    ELSE default_year

\* what dt.date raises for a triple that is no date of the proleptic Gregorian calendar
ValueError == [year |-> None, month |-> None, day |-> None]

\* the None of an Optional[dt.date]
NoDate == [year |-> 0, month |-> 0, day |-> 0]

days_in_month(year, month) ==
    IF month = 2
    THEN IF (year % 4 = 0 /\ year % 100 # 0) \/ year % 400 = 0 THEN 29 ELSE 28
    ELSE IF month \in {4, 6, 9, 11} THEN 30 ELSE 31

\* dt.date(year, month, day), with MINYEAR = 1 and MAXYEAR = 9999
date(year, month, day) ==
    IF /\ 1 <= year /\ year <= 9999
       /\ 1 <= month /\ month <= 12
       /\ 1 <= day /\ day <= days_in_month(year, month)
    THEN [year |-> year, month |-> month, day |-> day]
    ELSE ValueError

\* _safe_date without its try/except: the ValueError escapes
_safe_date_uncaught(year, month, day) == date(year, month, day)

\* _safe_date that only checks 1 <= month <= 12 and 1 <= day <= 31
_safe_date_naive(year, month, day) ==
    IF 1 <= month /\ month <= 12 /\ 1 <= day /\ day <= 31
    THEN [year |-> year, month |-> month, day |-> day]
    ELSE NoDate

\* try: return dt.date(...) except ValueError: return None
_safe_date(year, month, day) ==
    LET d == date(year, month, day)
    IN  IF d = ValueError THEN NoDate ELSE d

\* An exception that escapes a function is carried in its result as the value
\* ValueError, up to the loop of parse_events_from_text, which it ends.
Raised(dates) == \E k \in 1..Len(dates) : dates[k] = ValueError

\* _expand_range over range(start_day, end_day): the last day is left out
_expand_range_exclusive(start_day, end_day, month, year) ==
    IF end_day < start_day THEN <<>>
    ELSE SelectSeq([k \in 1..(end_day - start_day) |->
                        _safe_date(year, month, start_day + k - 1)],
                   LAMBDA d : d # NoDate)

\* _expand_range that reads a reversed range as written backwards
_expand_range_swapped(start_day, end_day, month, year) ==
    LET lo == IF end_day < start_day THEN end_day ELSE start_day
        hi == IF end_day < start_day THEN start_day ELSE end_day
    IN  SelectSeq([k \in 1..(hi - lo + 1) |-> _safe_date(year, month, lo + k - 1)],
                  LAMBDA d : d # NoDate)

_expand_range(start_day, end_day, month, year) ==
    IF end_day < start_day THEN <<>>
    ELSE SelectSeq([k \in 1..(end_day - start_day + 1) |->
                        _safe_date(year, month, start_day + k - 1)],
                   LAMBDA d : d # NoDate)

RECURSIVE Flatten(_)
\* list.append / list.extend over the iterations of a loop, in order
Flatten(parts) ==
    IF parts = <<>> THEN <<>> ELSE parts[1] \o Flatten(Tail(parts))

\* `if date: dates.append(date)`
appended(d) == IF d # NoDate THEN <<d>> ELSE <<>>

\* the iteration that expands a trailing range instead of appending the day
month_name_body_instead(month, day, year, range_match) ==
    IF range_match.start # None /\ Truthy(month) /\ Truthy(year)
    THEN _expand_range(int(range_match.g1), int(range_match.g2), month, year)
    ELSE IF Truthy(month) /\ Truthy(year) THEN appended(_safe_date(year, month, day))
    ELSE <<>>

\* one iteration of the loop over MONTH_NAME_DATE_RE.finditer(line), its locals given
month_name_body(month, day, year, range_match) ==
    (IF Truthy(month) /\ Truthy(year) THEN appended(_safe_date(year, month, day)) ELSE <<>>)
    \o
    (IF range_match.start # None /\ Truthy(month) /\ Truthy(year)
     THEN _expand_range(int(range_match.g1), int(range_match.g2), month, year)
     ELSE <<>>)

month_name_match(line, current_year, match) ==
    month_name_body(_month_from_token(match.g1),
                    int(match.g2),
                    _coerce_year(match.g3, current_year),
                    search("RANGE_RE", Slice(line, match.end, Len(line)), 0))

RECURSIVE month_name_loop(_, _, _)
month_name_loop(line, current_year, ms) ==
    IF ms = <<>> THEN <<>>
    ELSE month_name_match(line, current_year, Head(ms))
             \o month_name_loop(line, current_year, Tail(ms))

\* the loop over MONTH_NAME_DATE_RE.finditer(line)
month_name_dates(line, current_year) ==
    month_name_loop(line, current_year, finditer("MONTH_NAME_DATE_RE", line))

\* one iteration of the loop over DAY_MONTH_NAME_RE.finditer(line), its locals given
day_month_body(day, month, year) ==
    IF Truthy(month) /\ Truthy(year) THEN appended(_safe_date(year, month, day)) ELSE <<>>

RECURSIVE day_month_loop(_, _)
day_month_loop(current_year, ms) ==
    IF ms = <<>> THEN <<>>
    ELSE day_month_body(int(Head(ms).g1), _month_from_token(Head(ms).g2), current_year)
             \o day_month_loop(current_year, Tail(ms))

\* the loop over DAY_MONTH_NAME_RE.finditer(line)
day_month_dates(line, current_year) ==
    day_month_loop(current_year, finditer("DAY_MONTH_NAME_RE", line))

\* `if not year and current_year: year = current_year`
numeric_year(coerced, current_year) ==
    IF ~Truthy(coerced) /\ Truthy(current_year) THEN current_year ELSE coerced

\* one iteration of the loop over NUMERIC_DATE_RE.finditer(line), its locals given
numeric_body(month, day, year, range_match) ==
    (IF Truthy(year) THEN appended(_safe_date(year, month, day)) ELSE <<>>)
    \o
    (IF range_match.start # None /\ Truthy(year)
     THEN _expand_range(int(range_match.g1), int(range_match.g2), month, year)
     ELSE <<>>)

numeric_match(line, current_year, match) ==
    numeric_body(int(match.g1),
                 int(match.g2),
                 numeric_year(_coerce_year(match.g3, current_year), current_year),
                 search("RANGE_RE", Slice(line, match.end, Len(line)), 0))

RECURSIVE numeric_loop(_, _, _)
numeric_loop(line, current_year, ms) ==
    IF ms = <<>> THEN <<>>
    ELSE numeric_match(line, current_year, Head(ms))
             \o numeric_loop(line, current_year, Tail(ms))

\* the loop over NUMERIC_DATE_RE.finditer(line)
numeric_dates(line, current_year) ==
    numeric_loop(line, current_year, finditer("NUMERIC_DATE_RE", line))

\* the fallback with RANGE_RE.search in place of the loop over finditer
fallback_loop_first(current_month, current_year, ms) ==
    IF ms = <<>> THEN <<>>
    ELSE _expand_range(int(Head(ms).g1), int(Head(ms).g2), current_month, current_year)

RECURSIVE fallback_loop(_, _, _)
fallback_loop(current_month, current_year, ms) ==
    IF ms = <<>> THEN <<>>
    ELSE _expand_range(int(Head(ms).g1), int(Head(ms).g2), current_month, current_year)
             \o fallback_loop(current_month, current_year, Tail(ms))

\* the loop over RANGE_RE.finditer(line), under current_month and current_year
fallback_dates(line, current_month, current_year) ==
    IF Truthy(current_month) /\ Truthy(current_year)
    THEN fallback_loop(current_month, current_year, finditer("RANGE_RE", line))
    ELSE <<>>

\* the list `dates` of _extract_dates_from_line before it is deduplicated
working_dates(line, current_month, current_year) ==
    month_name_dates(line, current_year)
        \o day_month_dates(line, current_year)
        \o numeric_dates(line, current_year)
        \o fallback_dates(line, current_month, current_year)

\* the loop without its `if date not in seen`
seen_append_always(unique, d) == Append(unique, d)

\* `if date not in seen: seen.add(date); unique_dates.append(date)`
seen_append(unique, d) ==
    IF \E k \in 1..Len(unique) : unique[k] = d THEN unique ELSE Append(unique, d)

RECURSIVE unique_dates(_)
\* the seen/unique_dates loop: the first occurrence of each date, in order
unique_dates(ds) ==
    IF ds = <<>> THEN <<>>
    ELSE seen_append(unique_dates(SubSeq(ds, 1, Len(ds) - 1)), ds[Len(ds)])

_extract_dates_from_line(line, current_month, current_year) ==
    unique_dates(working_dates(line, current_month, current_year))

\* `_month_from_token(month_match.group(1)) if month_match else None`
month_if(month_match) ==
    IF month_match.start # None THEN _month_from_token(month_match.g1) ELSE None

\* `int(year_match.group(1)) if year_match else None`
year_if(year_match) == IF year_match.start # None THEN int(year_match.g1) ELSE None

\* <<month, year>>
_extract_month_year(line) ==
    <<month_if(search("MONTH_RE", line, 0)), year_if(search("YEAR_RE", line, 0))>>

RECURSIVE join(_, _)
\* sep.join(parts)
join(sep, parts) ==
    IF parts = <<>> THEN <<>>
    ELSE IF Len(parts) = 1 THEN parts[1]
    ELSE parts[1] \o sep \o join(sep, Tail(parts))

RECURSIVE splitlines(_)
\* str.splitlines(): no last empty line after a final line break
splitlines(text) ==
    IF text = <<>> THEN <<>>
    ELSE LET nl == {i \in 1..Len(text) : text[i] = "\n"}
         IN  IF nl = {} THEN <<text>>
             ELSE <<SubSeq(text, 1, Min(nl) - 1)>>
                      \o splitlines(SubSeq(text, Min(nl) + 1, Len(text)))

\* A cell is a str; the cell None and the cell "" are both the empty sequence
\* (`cell and cell.strip()` drops the two alike).
_lines_from_tables(tables) ==
    LET row_line(row) ==
            LET cells == SelectSeq(row, LAMBDA cell : cell # <<>> /\ strip(cell) # <<>>)
            IN  IF cells # <<>>
                THEN <<join(<<" ">>, [k \in 1..Len(cells) |-> strip(cells[k])])>>
                ELSE <<>>
        table_lines(table) == Flatten([r \in 1..Len(table) |-> row_line(table[r])])
    IN  Flatten([t \in 1..Len(tables) |-> table_lines(tables[t])])

\* Event(date=date, description=description, page=page_num, source_line=line)
Event(d, description, page, source_line) ==
    [date |-> d, description |-> description, page |-> page, source_line |-> source_line]

\* combined_text of extract_events for one page
combined_text(page) ==
    LET page_text == page.text
        page_tables == page.tables
        lines == (IF page_text # <<>> THEN <<page_text>> ELSE <<>>)
                 \o (IF page_tables # <<>>
                     THEN <<join(<<"\n">>, _lines_from_tables(page_tables))>>
                     ELSE <<>>)
    IN  join(<<"\n">>, lines)

(***************************************************************************)
(* The documents the model reads.  extract_events takes any PDF; the model *)
(* takes every document of the families below.                             *)
(***************************************************************************)

\* the largest number written as a bound of a day range
MaxDay == 32

\* the most pages of a document made of the pages of SmallPages
MaxPages == 3

\* the most characters of a raw line made of whitespace and words
MaxRawLen == 4

\* the most cells of the first row of a table
MaxCells == 2

DigitChar(n) ==
    CASE n = 0 -> "0" [] n = 1 -> "1" [] n = 2 -> "2" [] n = 3 -> "3" [] n = 4 -> "4"
      [] n = 5 -> "5" [] n = 6 -> "6" [] n = 7 -> "7" [] n = 8 -> "8" [] n = 9 -> "9"

RECURSIVE Str(_)
\* the decimal numeral of n, as a document writes it
Str(n) == IF n < 10 THEN <<DigitChar(n)>> ELSE Str(n \div 10) \o <<DigitChar(n % 10)>>

Days == {0, 1, 5, 10, 14} \cup (28..MaxDay)

RangeMonths == {"March", "apr", "feb"}

RangeYears == {2024, 2025}

\* "March 10-14, 2025"
MonthRangeLine(m, d1, d2, y) ==
    <<m, " ">> \o Str(d1) \o <<"-">> \o Str(d2) \o <<",", " ">> \o Str(y)

\* "10-14 Spring Break"
BareRangeLine(d1, d2) == Str(d1) \o <<"-">> \o Str(d2) \o <<" ", "Spring", " ", "Break">>

\* header lines, with the month and year each one sets
Headers ==
    { [text |-> <<"March", " ", "2", "0", "2", "5">>, month |-> 3, year |-> 2025],
      [text |-> <<"feb", " ", "2", "0", "2", "4">>, month |-> 2, year |-> 2024],
      [text |-> <<"April">>, month |-> 4, year |-> None],
      [text |-> <<"2", "0", "2", "5", " ", "Calendar">>, month |-> None, year |-> 2025],
      [text |-> <<"Spring", " ", "Break">>, month |-> None, year |-> None] }

NumericMonths == {0, 3, 13}

NumericDays == {0, 5, 31, 99}

\* the year written after the second slash; <<>> for none
YearTokens ==
    { <<>>, <<"2", "5">>, <<"0", "0">>, <<"0", "0", "0", "0">>, <<"2", "0", "2">>,
      <<"2", "0", "2", "5">>, <<"1", "9", "9", "9">> }

RangeTails == { <<>>, <<" ", "1", "0", "-", "1", "2">>, <<" ", "1", "4", "-", "1", "0">> }

\* "3/5/25 10-12"
NumericLine(m, d, y, tail) ==
    Str(m) \o <<"/">> \o Str(d) \o (IF y = <<>> THEN <<>> ELSE <<"/">> \o y) \o tail

HalfDayLine == <<"The", " ", "1", "0", "th", " ", "is", " ", "a", " ", "half", " ", "day">>

EasterLine == <<"Easter", " ", "Monday", ",", " ", "April", " ", "2", "1">>

\* a day-first, a numeric and a month-name-first date, written in this order
ThreeGrammarsLine ==
    <<"4", " ", "mar", ":", " ", "3", "/", "1", "/", "2", "5", ":", " ",
      "March", " ", "2", ",", " ", "2", "0", "2", "5">>

\* two bare ranges
TwoRangesLine == <<"1", "-", "2", " ", "and", " ", "4", "-", "5">>

\* a month-name-first date with a trailing range, after another month name
AprilMarchLine ==
    <<"April", ":", " ", "March", " ", "5", ",", " ", "2", "0", "2", "5", " ",
      "1", "0", "-", "1", "4">>

MiscLines ==
    { HalfDayLine,
      EasterLine,
      <<"1", "0", "-", "1", "4", " ", "March", " ", "2", "0", "2", "5">>,
      <<"March", " ", "5", ",", " ", "2", "0", "2", "5", " ", "1", "0", "-", "1", "4">>,
      TwoRangesLine,
      AprilMarchLine,
      <<"March", " ", "3", " ", "2", "0", "2", "5", " ", "3", "/", "3", "/", "2", "5", " ",
        "3", " ", "mar">>,
      <<"March", " ", "1", "0", " ", "-", " ", "1", "4", ",", " ", "2", "0", "2", "5">>,
      <<"March", " ", "1", "4", "-", "1", "0", "-", "1", "2", ",", " ", "2", "0", "2", "5">>,
      <<"3", "/", "1", "0", "/", "2", "5", " ", "March", " ", "1", "0", ",", " ",
        "2", "0", "2", "5">>,
      <<"SEPT", " ", "3", "0", "-", "3", "1">>,
      <<"feb", " ", "2", "9">>,
      ThreeGrammarsLine }

\* the text of the end-to-end scenario
ExampleText ==
    <<"Spring", " ", "Break", "\n">>
        \o MonthRangeLine("March", 10, 14, 2025) \o <<"\n">> \o EasterLine

Page(text, tables) == [text |-> text, tables |-> tables]

OnePage(text) == <<Page(text, <<>>)>>

\* one line: a month-name range with its year
RangeDocs ==
    { OnePage(MonthRangeLine(m, d1, d2, y)) :
          m \in RangeMonths, d1 \in Days, d2 \in Days, y \in RangeYears }

\* a header line, then a bare range
CarryDocs ==
    { OnePage(h.text \o <<"\n">> \o BareRangeLine(d1, d2)) :
          h \in Headers, d1 \in Days, d2 \in Days }
    \cup
    { OnePage(h1.text \o <<"\n">> \o h2.text \o <<"\n">> \o BareRangeLine(d[1], d[2])) :
          h1 \in Headers, h2 \in Headers, d \in {<<10, 14>>, <<29, 31>>, <<14, 10>>} }

\* one numeric date, alone or under the header "feb 2024"
NumericDocs ==
    { OnePage(pre \o NumericLine(m, d, y, tail)) :
          pre \in {<<>>, <<"feb", " ", "2", "0", "2", "4", "\n">>},
          m \in NumericMonths, d \in NumericDays, y \in YearTokens, tail \in RangeTails }

\* one other line, alone or under a header
MiscDocs ==
    { OnePage(l) : l \in MiscLines }
    \cup { OnePage(h.text \o <<"\n">> \o l) : h \in Headers, l \in MiscLines }

\* raw lines of whitespace, words and digits
RawLines ==
    UNION { [1..n -> {" ", "\t", "a"}] : n \in 1..MaxRawLen }
    \cup { <<"\t", "a", " ", "\t", "1", " ">> }

RawDocs == { OnePage(l) : l \in RawLines }

Cells ==
    { <<>>, <<" ">>, <<"March", " ", " ", "2", "0", "2", "5", " ">>,
      <<"1", "0", "-", "1", "2", "\n", "Break">> }

Rows == UNION { [1..n -> Cells] : n \in 0..MaxCells }

SecondRows == { <<<<"1", "-", "2">>, <<>>, <<"Camp">>>>, << <<"\t">>, <<>> >> }

Tables ==
    { <<<<r>>>> : r \in Rows }
    \cup { <<<<r, r2>>>> : r \in Rows, r2 \in SecondRows }
    \cup { <<<<r>>, <<r2>>>> : r \in Rows, r2 \in SecondRows }

TableDocs ==
    { <<Page(text, t)>> :
          text \in {<<>>, <<"April", " ", "2", "0", "2", "4">>}, t \in Tables }

SmallPages ==
    { Page(<<>>, <<>>),
      Page(<<"March", " ", "2", "0", "2", "5">>, <<>>),
      Page(BareRangeLine(10, 14), <<>>),
      Page(ExampleText, <<>>),
      Page(<<"April", " ", "1">>, << << <<BareRangeLine(1, 2)>> >> >>) }

PageDocs == UNION { [1..n -> SmallPages] : n \in 0..MaxPages }

\* three ways of writing 10 March 2025
SameDateLines ==
    { <<"March", " ", "1", "0", ",", " ", "2", "0", "2", "5">>,
      <<"3", "/", "1", "0", "/", "2", "5">>,
      <<"2", "0", "2", "5", ":", " ", "1", "0", " ", "mar">> }

\* two lines that resolve the same date
SameDateDocs == { OnePage(a \o <<"\n">> \o b) : a \in SameDateLines, b \in SameDateLines }

\* "March 5, 2025 10-14"
MonthDayRangeLine(m, d, y, d1, d2) ==
    <<m, " ">> \o Str(d) \o <<",", " ">> \o Str(y) \o <<" ">> \o Str(d1) \o <<"-">> \o Str(d2)

TrailDays == {5, 12, 31}

TrailRanges == { <<10, 14>>, <<14, 10>>, <<1, 2>>, <<29, 31>> }

\* one line: a month-name-first date with a range after it
TrailDocs ==
    { OnePage(MonthDayRangeLine(m, d, y, r[1], r[2])) :
          m \in RangeMonths, d \in TrailDays, y \in RangeYears, r \in TrailRanges }

Documents == RangeDocs \cup CarryDocs \cup NumericDocs \cup MiscDocs \cup RawDocs
                 \cup TableDocs \cup PageDocs \cup SameDateDocs \cup TrailDocs

(***************************************************************************)
(* The state machine: extract_events over the pages of pdf, and            *)
(* parse_events_from_text over the lines of one page.                      *)
(***************************************************************************)

VARIABLES
    pdf,            \* pdf.pages: the pages, each with its text and its tables
    page_index,     \* extract_events: the number of the page being read (0: none yet)
    events,         \* extract_events: events
    pc,             \* "pages", "lines" (inside parse_events_from_text), "done", "raised"
    raw_lines,      \* parse_events_from_text: the lines of text.splitlines() still to come
    raw_line,       \* parse_events_from_text: raw_line
    line,           \* parse_events_from_text: line
    dates,          \* parse_events_from_text: dates
    current_month,  \* parse_events_from_text: current_month
    current_year,   \* parse_events_from_text: current_year
    page_events     \* parse_events_from_text: events

vars ==
    <<pdf, page_index, events, pc, raw_lines, raw_line, line, dates,
      current_month, current_year, page_events>>

Init ==
    /\ pdf \in Documents
    /\ page_index = 0
    /\ events = <<>>
    /\ pc = "pages"
    /\ raw_lines = <<>>
    /\ raw_line = <<>>
    /\ line = <<>>
    /\ dates = <<>>
    /\ current_month = None
    /\ current_year = None
    /\ page_events = <<>>

\* OpenPage with current_month and current_year kept from the page before
OpenPage_state_kept ==
    /\ pc = "pages"
    /\ page_index < Len(pdf)
    /\ page_index' = page_index + 1
    /\ raw_lines' = splitlines(combined_text(pdf[page_index + 1]))
    /\ page_events' = <<>>
    /\ raw_line' = <<>>
    /\ line' = <<>>
    /\ dates' = <<>>
    /\ pc' = "lines"
    /\ UNCHANGED <<pdf, events, current_month, current_year>>

\* extract_events takes the next page and calls parse_events_from_text, which
\* starts with no events, no month and no year
OpenPage ==
    /\ pc = "pages"
    /\ page_index < Len(pdf)
    /\ page_index' = page_index + 1
    /\ raw_lines' = splitlines(combined_text(pdf[page_index + 1]))
    /\ page_events' = <<>>
    /\ current_month' = None
    /\ current_year' = None
    /\ raw_line' = <<>>
    /\ line' = <<>>
    /\ dates' = <<>>
    /\ pc' = "lines"
    /\ UNCHANGED <<pdf, events>>

\* a line that is empty once cleaned: continue
SkipLine ==
    /\ pc = "lines"
    /\ raw_lines # <<>>
    /\ _clean_line(Head(raw_lines)) = <<>>
    /\ raw_line' = Head(raw_lines)
    /\ raw_lines' = Tail(raw_lines)
    /\ line' = <<>>
    /\ UNCHANGED <<pdf, page_index, events, pc, dates, current_month, current_year,
                   page_events>>

\* the assignment without its `if month:` / `if year:`
updated_always(found, current) == found

\* the assignment under `if month and not current_month:`
updated_once(found, current) == IF Truthy(current) THEN current ELSE found

\* current_month / current_year after `if month:` / `if year:`
updated(found, current) == IF Truthy(found) THEN found ELSE current

\* the events of a line under pages numbered from 0
line_events_from_zero(ds, l, page_num) ==
    [k \in 1..Len(ds) |-> Event(ds[k], l, page_num - 1, l)]

\* the events one line appends, one per date
line_events(ds, l, page_num) ==
    [k \in 1..Len(ds) |-> Event(ds[k], l, page_num, l)]

\* `if not dates: continue`, else one event per date; an exception ends the loop
append_events(ds) ==
    IF Raised(ds)
    THEN /\ pc' = "raised"
         /\ UNCHANGED <<dates, page_events>>
    ELSE /\ pc' = "lines"
         /\ dates' = ds
         /\ page_events' = page_events \o line_events(ds, line', page_index)

\* the body of the loop for a line that is not empty once cleaned
ProcessLine ==
    /\ pc = "lines"
    /\ raw_lines # <<>>
    /\ _clean_line(Head(raw_lines)) # <<>>
    /\ raw_line' = Head(raw_lines)
    /\ raw_lines' = Tail(raw_lines)
    /\ line' = _clean_line(raw_line')
    /\ current_month' = updated(_extract_month_year(line')[1], current_month)
    /\ current_year' = updated(_extract_month_year(line')[2], current_year)
    /\ append_events(_extract_dates_from_line(line', current_month', current_year'))
    /\ UNCHANGED <<pdf, page_index, events>>

\* parse_events_from_text returns and extract_events extends its events
ReturnPage ==
    /\ pc = "lines"
    /\ raw_lines = <<>>
    /\ events' = events \o page_events
    /\ pc' = "pages"
    /\ UNCHANGED <<pdf, page_index, raw_lines, raw_line, line, dates, current_month,
                   current_year, page_events>>

\* extract_events returns events
Finish ==
    /\ pc = "pages"
    /\ page_index = Len(pdf)
    /\ pc' = "done"
    /\ UNCHANGED <<pdf, page_index, events, raw_lines, raw_line, line, dates,
                   current_month, current_year, page_events>>

Next == OpenPage \/ SkipLine \/ ProcessLine \/ ReturnPage \/ Finish

Spec == Init /\ [][Next]_vars

(***************************************************************************)
(* What the claims are stated with: the calendar, written without the      *)
(* engine, and the lines and events a page is expected to give.            *)
(***************************************************************************)

LeapYear(y) == IF y % 100 = 0 THEN y % 400 = 0 ELSE y % 4 = 0

MonthLength(y, m) ==
    CASE m \in {1, 3, 5, 7, 8, 10, 12} -> 31
      [] m \in {4, 6, 9, 11} -> 30
      [] m = 2 -> IF LeapYear(y) THEN 29 ELSE 28

\* d is a date of the Gregorian calendar
RealDate(d) ==
    /\ d.year \in 1..9999
    /\ d.month \in 1..12
    /\ d.day \in 1..MonthLength(d.year, d.month)

\* the real days among d1..d2 of month m of year y, ascending
RealDays(y, m, d1, d2) ==
    IF d2 < d1 \/ m \notin 1..12 THEN <<>>
    ELSE SelectSeq([k \in 1..(d2 - d1 + 1) |-> [year |-> y, month |-> m, day |-> d1 + k - 1]],
                   LAMBDA d : RealDate(d))

StartsWith(s, pre) == Len(pre) <= Len(s) /\ SubSeq(s, 1, Len(pre)) = pre

\* the later of two settings of a month or a year
LastSet(a, b) == IF b # None THEN b ELSE a

\* the raw lines of page i
PageLines(i) == splitlines(combined_text(pdf[i]))

\* a line has just been processed
LineDone == pc = "lines" /\ line # <<>>

\* C1: a line "<Month> D1-D2, <Year>" with D1 <= D2 yields exactly the real days
\* from D1 to D2 of that month and year, ascending, and nothing else; a day the
\* month does not have is dropped alone. Without a year on the line ("SEPT
\* 30-31") the year is the one the page has set, and nothing is yielded while
\* none is set.
C1_RangeExpansion ==
    LineDone =>
        /\ \A m \in RangeMonths :
            (line[1] = m) =>
                \A d1 \in Days, d2 \in Days, y \in RangeYears :
                    (d1 <= d2 /\ line = MonthRangeLine(m, d1, d2, y))
                        => dates = RealDays(y, MONTHS[lower(m)], d1, d2)
        /\ (line = <<"SEPT", " ", "3", "0", "-", "3", "1">>)
               => dates = IF current_year # None
                          THEN << [year |-> current_year, month |-> 9, day |-> 30] >>
                          ELSE <<>>

\* "apr 28-31, 2025" has given 28, 29 and 30 April
C1_Witness ==
    /\ LineDone
    /\ line = MonthRangeLine("apr", 28, 31, 2025)
    /\ dates = << [year |-> 2025, month |-> 4, day |-> 28],
                  [year |-> 2025, month |-> 4, day |-> 29],
                  [year |-> 2025, month |-> 4, day |-> 30] >>

\* C2: on a page, a bare range under header lines yields the days of the range
\* in the month and the year the headers set last (nothing while one of the two
\* is unset); the header lines yield nothing, and neither does a line with no
\* date grammar ("The 10th is a half day").
C2_CarryForward ==
    LineDone =>
        /\ \A h \in Headers : (line = h.text) => dates = <<>>
        /\ (line = HalfDayLine) => dates = <<>>
        /\ \A h \in Headers :
               StartsWith(pdf[page_index].text, h.text \o <<"\n">>) =>
                   /\ \A d1 \in Days, d2 \in Days :
                          ( /\ raw_lines = <<>>
                            /\ pdf[page_index].text = h.text \o <<"\n">> \o BareRangeLine(d1, d2) )
                          => dates = IF h.month # None /\ h.year # None
                                     THEN RealDays(h.year, h.month, d1, d2)
                                     ELSE <<>>
                   /\ \A h2 \in Headers, d1 \in Days, d2 \in Days :
                          ( /\ raw_lines = <<>>
                            /\ pdf[page_index].text =
                                   h.text \o <<"\n">> \o h2.text \o <<"\n">> \o BareRangeLine(d1, d2) )
                          => dates = IF LastSet(h.month, h2.month) # None
                                        /\ LastSet(h.year, h2.year) # None
                                     THEN RealDays(LastSet(h.year, h2.year),
                                                   LastSet(h.month, h2.month), d1, d2)
                                     ELSE <<>>

\* "10-14 Spring Break" under "March 2025" has given 10..14 March 2025
C2_Witness ==
    /\ LineDone
    /\ pdf[page_index].text =
           <<"March", " ", "2", "0", "2", "5", "\n">> \o BareRangeLine(10, 14)
    /\ line = BareRangeLine(10, 14)
    /\ dates = RealDays(2025, 3, 10, 14)
    /\ Len(dates) = 5

RECURSIVE ExpectedPage(_, _, _, _)
\* the events expected of the raw lines ls of page n, read in order from month cm
\* and year cy: one event per date of each non-empty normalized line
ExpectedPage(ls, cm, cy, n) ==
    IF ls = <<>> THEN <<>>
    ELSE LET l  == _clean_line(Head(ls))
             my == _extract_month_year(l)
             m  == LastSet(cm, my[1])
             y  == LastSet(cy, my[2])
             ds == _extract_dates_from_line(l, m, y)
         IN  IF l = <<>> THEN ExpectedPage(Tail(ls), cm, cy, n)
             ELSE [k \in 1..Len(ds) |->
                       [date |-> ds[k], description |-> l, page |-> n, source_line |-> l]]
                  \o ExpectedPage(Tail(ls), m, y, n)

\* no line of the current page has been read yet
PageStart == pc = "lines" /\ raw_line = <<>> /\ Len(raw_lines) = Len(PageLines(page_index))

\* the page's first line has just been processed
FirstLineDone == LineDone /\ Len(raw_lines) + 1 = Len(PageLines(page_index))

\* the page's last line has been read
PageEnd == pc = "lines" /\ raw_lines = <<>>

\* C3: every page starts with month and year unset, whatever the pages before
\* it set: a bare range on a page's first line yields nothing, and the events
\* of a page are those of its own lines read from the unset state.
C3_PageIsolation ==
    /\ PageStart => (current_month = None /\ current_year = None)
    /\ FirstLineDone =>
           \A d1 \in Days, d2 \in Days : (line = BareRangeLine(d1, d2)) => dates = <<>>
    /\ PageEnd => page_events = ExpectedPage(PageLines(page_index), None, None, page_index)

\* page 1 is "March 2025" and "10-14 Spring Break", alone on page 2, has given
\* nothing
C3_Witness ==
    /\ FirstLineDone
    /\ page_index = 2
    /\ pdf[1].text = <<"March", " ", "2", "0", "2", "5">>
    /\ pdf[2].text = BareRangeLine(10, 14)
    /\ line = BareRangeLine(10, 14)
    /\ dates = <<>>
    /\ page_events = <<>>

\* d is one of ds
In(d, ds) == \E k \in 1..Len(ds) : ds[k] = d

\* where d first stands in ds
FirstIndex(d, ds) == Min({ k \in 1..Len(ds) : ds[k] = d })

\* ds holds what w holds, each date once, in the order of first appearance in w
DedupOf(ds, w) ==
    /\ \A i \in 1..Len(ds), j \in 1..Len(ds) : (i # j) => ds[i] # ds[j]
    /\ \A k \in 1..Len(ds) : In(ds[k], w)
    /\ \A k \in 1..Len(w) : In(w[k], ds)
    /\ \A i \in 1..Len(ds), j \in 1..Len(ds) :
           (i < j) => FirstIndex(ds[i], w) < FirstIndex(ds[j], w)

\* C4: the dates of one line are the dates its working list holds, each once, in
\* the order of their first appearance in it (the month-name-first date before
\* the day-first date before the numeric date before the days of a bare range);
\* all of them are emitted as
\* this line's events, whatever dates the lines before it gave.
C4_PerLineDedup ==
    LineDone =>
        /\ DedupOf(dates, working_dates(line, current_month, current_year))
        /\ (line = <<"1", "0", "-", "1", "4", " ", "March", " ", "2", "0", "2", "5">>)
               => dates = << [year |-> 2025, month |-> 3, day |-> 14] >>
                              \o RealDays(2025, 3, 10, 13)
        /\ (line = ThreeGrammarsLine)
               => dates = << [year |-> 2025, month |-> 3, day |-> 2],
                             [year |-> 2025, month |-> 3, day |-> 4],
                             [year |-> 2025, month |-> 3, day |-> 1] >>
        /\ Len(page_events) >= Len(dates)
        /\ \A k \in 1..Len(dates) :
               page_events[Len(page_events) - Len(dates) + k] =
                   [date |-> dates[k], description |-> line, page |-> page_index,
                    source_line |-> line]

\* a line naming 3 March 2025 three times has given it once
C4_WitnessOneLine ==
    /\ LineDone
    /\ Len(working_dates(line, current_month, current_year)) = 3
    /\ dates = << [year |-> 2025, month |-> 3, day |-> 3] >>

\* "March 10, 2025" and then "3/10/25" have given two events of one date
C4_Witness ==
    /\ LineDone
    /\ line = <<"3", "/", "1", "0", "/", "2", "5">>
    /\ Len(page_events) = 2
    /\ page_events[1].date = page_events[2].date
    /\ page_events[1].source_line = <<"March", " ", "1", "0", ",", " ", "2", "0", "2", "5">>
    /\ page_events[2].source_line = line

\* C5: every date the engine returns and every date of an emitted event is a
\* date of the Gregorian calendar: 31 April, 30 February and their like are
\* never produced.
C5_ValidityFilter ==
    /\ \A k \in 1..Len(dates) : RealDate(dates[k])
    /\ \A k \in 1..Len(page_events) : RealDate(page_events[k].date)
    /\ \A k \in 1..Len(events) : RealDate(events[k].date)

\* "feb 28-31, 2024" has given 28 and 29 February and no day after them
C5_Witness ==
    /\ pc = "done"
    /\ pdf = OnePage(MonthRangeLine("feb", 28, 31, 2024))
    /\ Len(events) = 2
    /\ events[1].date = [year |-> 2024, month |-> 2, day |-> 28]
    /\ events[2].date = [year |-> 2024, month |-> 2, day |-> 29]

\* C6: no text makes the engine fail: no exception leaves it, every line of
\* every page is processed and the driver returns; a numeric occurrence with an
\* impossible month or day ("13/99/0000") gives no date, and the rest of the
\* line and of the document is still read.
C6_NoFailure ==
    /\ pc # "raised"
    /\ pc \in {"pages", "lines", "done"}
    /\ (pc = "done") => page_index = Len(pdf)
    /\ \A k \in 1..Len(dates) : dates[k] # ValueError
    /\ LineDone =>
           \A m \in NumericMonths :
               (line[1] = Str(m)[1]) =>
                   \A d \in NumericDays, y \in YearTokens, tail \in RangeTails :
                       ( /\ line = NumericLine(m, d, y, tail)
                         /\ m \notin 1..12 \/ (d \notin 1..31 /\ tail = <<>>) )
                       => dates = IF tail = <<" ", "1", "0", "-", "1", "2">>
                                     /\ current_month # None /\ current_year # None
                                  THEN RealDays(current_year, current_month, 10, 12)
                                  ELSE <<>>

\* "13/99/0000 10-12" under "feb 2024" was read to its end: the numeric
\* occurrence gave nothing and the bare range gave its three days
C6_Witness ==
    /\ pc = "done"
    /\ pdf = OnePage(<<"feb", " ", "2", "0", "2", "4", "\n">>
                         \o NumericLine(13, 99, <<"0", "0", "0", "0">>,
                                        <<" ", "1", "0", "-", "1", "2">>))
    /\ Len(events) = 3
    /\ events[1].date = [year |-> 2024, month |-> 2, day |-> 10]

\* C7: a range whose end day is below its start day gives no date: after a
\* month name only the start day is emitted ("March 14-10, 2025" gives 14 March
\* alone), after a numeric date only that date, and a bare reversed range under
\* a header gives nothing.
C7_ReversedRange ==
    LineDone =>
        /\ \A m \in RangeMonths :
               (line[1] = m) =>
                   \A d1 \in Days, d2 \in Days, y \in RangeYears :
                       (d2 < d1 /\ line = MonthRangeLine(m, d1, d2, y))
                           => dates = RealDays(y, MONTHS[lower(m)], d1, d1)
        /\ \A d1 \in Days, d2 \in Days :
               (d2 < d1 /\ line = BareRangeLine(d1, d2)) => dates = <<>>
        /\ \A m \in NumericMonths :
               (line[1] = Str(m)[1]) =>
                   \A d \in NumericDays, y \in YearTokens :
                       (line = NumericLine(m, d, y, <<" ", "1", "4", "-", "1", "0">>))
                           => /\ Len(dates) <= 1
                              /\ \A k \in 1..Len(dates) :
                                     dates[k].month = m /\ dates[k].day = d

\* "March 14-10, 2025" has given 14 March 2025 alone
C7_Witness ==
    /\ LineDone
    /\ line = MonthRangeLine("March", 14, 10, 2025)
    /\ dates = << [year |-> 2025, month |-> 3, day |-> 14] >>

RECURSIVE ExpectedEvents(_)
\* the events expected of the first n pages, page after page
ExpectedEvents(n) ==
    IF n = 0 THEN <<>>
    ELSE ExpectedEvents(n - 1) \o ExpectedPage(PageLines(n), None, None, n)

\* the events returned for page p
EventsOfPage(p) == SelectSeq(events, LAMBDA e : e.page = p)

\* what the end-to-end scenario gives on page p
ExampleEvents(p) ==
    [k \in 1..5 |->
        [date |-> [year |-> 2025, month |-> 3, day |-> 9 + k],
         description |-> MonthRangeLine("March", 10, 14, 2025),
         page |-> p,
         source_line |-> MonthRangeLine("March", 10, 14, 2025)]]
    \o << [date |-> [year |-> 2025, month |-> 4, day |-> 21],
           description |-> EasterLine, page |-> p, source_line |-> EasterLine] >>

\* C8: the driver returns the events page after page in document order, within
\* a page line after line, within a line in the engine's order, one event per
\* date; description and source_line are both the normalized line and page is
\* the 1-based page number. A page with the lines "Spring Break",
\* "March 10-14, 2025", "Easter Monday, April 21" gives the five events of 10..14
\* March 2025 and then the event of 21 April 2025.
C8_EmissionOrder ==
    /\ (pc \in {"pages", "done"}) => events = ExpectedEvents(page_index)
    /\ \A k \in 1..Len(events) :
           /\ events[k].description = events[k].source_line
           /\ events[k].description # <<>>
           /\ _clean_line(events[k].description) = events[k].description
           /\ events[k].page \in 1..Len(pdf)
    /\ \A i \in 1..Len(events), j \in 1..Len(events) :
           (i < j) => events[i].page <= events[j].page
    /\ (pc = "pages") =>
           \A p \in 1..page_index :
               (pdf[p] = Page(ExampleText, <<>>)) => EventsOfPage(p) = ExampleEvents(p)

\* the scenario's text on page 3, after a page that gave events of its own, has
\* given its six events last
C8_Witness ==
    /\ pc = "done"
    /\ Len(pdf) = 3
    /\ pdf[2] = Page(ExampleText, <<>>)
    /\ pdf[3] = Page(ExampleText, <<>>)
    /\ Len(events) = 12
    /\ events[6].page = 2
    /\ events[7].page = 3
    /\ events[12] = [date |-> [year |-> 2025, month |-> 4, day |-> 21],
                     description |-> EasterLine, page |-> 3, source_line |-> EasterLine]

RECURSIVE NormalizedLines(_)
\* the non-empty normalized lines of the raw lines ls
NormalizedLines(ls) ==
    IF ls = <<>> THEN <<>>
    ELSE (IF _clean_line(Head(ls)) = <<>> THEN <<>> ELSE <<_clean_line(Head(ls))>>)
         \o NormalizedLines(Tail(ls))

\* the cells of a row that hold more than whitespace
NonBlank(row) == SelectSeq(row, LAMBDA cell : _clean_line(cell) # <<>>)

RECURSIVE RowLines(_)
\* one line per row with a non-blank cell: its non-blank cells, normalized, with
\* a single space between them
RowLines(rows) ==
    IF rows = <<>> THEN <<>>
    ELSE (IF NonBlank(Head(rows)) = <<>> THEN <<>>
          ELSE <<_clean_line(join(<<" ">>, NonBlank(Head(rows))))>>)
         \o RowLines(Tail(rows))

RECURSIVE TableRows(_)
\* the rows of the tables, table after table
TableRows(tables) ==
    IF tables = <<>> THEN <<>> ELSE Head(tables) \o TableRows(Tail(tables))

\* C9: the lines a page feeds to the engine are the lines of its text and then
\* one line per table row with a non-blank cell, in table order; a row is one
\* line, also when a cell holds a newline.
C9_TableRowsAreLines ==
    PageStart =>
        NormalizedLines(raw_lines) =
            NormalizedLines(splitlines(pdf[page_index].text))
                \o RowLines(TableRows(pdf[page_index].tables))

\* the same where no cell holds a newline
C9_RowsWithoutNewline ==
    ( /\ PageStart
      /\ \A r \in 1..Len(TableRows(pdf[page_index].tables)) :
             \A c \in 1..Len(TableRows(pdf[page_index].tables)[r]) :
                 ~ In("\n", TableRows(pdf[page_index].tables)[r][c]) )
    => NormalizedLines(raw_lines) =
           NormalizedLines(splitlines(pdf[page_index].text))
               \o RowLines(TableRows(pdf[page_index].tables))

\* where the first run of non-whitespace of s ends
RunLen(s) == Min({ k \in 1..(Len(s) + 1) : k = Len(s) + 1 \/ s[k] \in Whitespace }) - 1

RECURSIVE Words(_)
\* the maximal runs of non-whitespace of s
Words(s) ==
    IF s = <<>> THEN <<>>
    ELSE IF Head(s) \in Whitespace THEN Words(Tail(s))
    ELSE <<SubSeq(s, 1, RunLen(s))>> \o Words(SubSeq(s, RunLen(s) + 1, Len(s)))

\* C10: the normalized line holds the raw line's runs of non-whitespace in
\* order with one space between neighbours: no tab, no two spaces in a row, no
\* space at either end; a raw line of whitespace alone normalizes to the empty
\* line, and normalizing a normalized line changes nothing.
C10_CleanLine ==
    (pc = "lines" /\ raw_line # <<>>) =>
        /\ \A k \in 1..Len(line) : (line[k] \in Whitespace) => line[k] = " "
        /\ \A k \in 1..(Len(line) - 1) : ~ (line[k] = " " /\ line[k + 1] = " ")
        /\ (line # <<>>) => (line[1] # " " /\ line[Len(line)] # " ")
        /\ Words(line) = Words(raw_line)
        /\ line = join(<<" ">>, Words(raw_line))
        /\ (\A k \in 1..Len(raw_line) : raw_line[k] \in Whitespace) => line = <<>>
        /\ _clean_line(line) = line

\* "\ta \t1 " has become "a 1"
C10_Witness ==
    /\ pc = "lines"
    /\ raw_line = <<"\t", "a", " ", "\t", "1", " ">>
    /\ line = <<"a", " ", "1">>

\* a raw line of whitespace alone has become the empty line
C10_WitnessBlank ==
    /\ pc = "lines"
    /\ raw_line = <<" ", "\t", " ">>
    /\ line = <<>>

RECURSIVE EveryRange(_, _, _)
\* the real days of every range token among the matches ms, in month cm of year cy
EveryRange(ms, cm, cy) ==
    IF ms = <<>> THEN <<>>
    ELSE RealDays(cy, cm, int(Head(ms).g1), int(Head(ms).g2))
             \o EveryRange(Tail(ms), cm, cy)

\* what the month-name-first, day-first and numeric grammars give on the line
AnchoredDates ==
    month_name_dates(line, current_year)
        \o day_month_dates(line, current_year)
        \o numeric_dates(line, current_year)

\* the page state holds a month and a year
StateSet == current_month # None /\ current_year # None

\* C11 (as amended): while the page's month or year is unset the fallback
\* expands nothing; once both are set it expands every D-D range of the line in
\* the page's month and year, also a range that a month-name or numeric match of
\* the line has expanded: "1-2 and 4-5" gives the days of both ranges, and
\* "3/5/25 10-12" under "feb 2024" gives 10..12 February 2024 besides 5 and
\* 10..12 March 2025.
C11_FallbackEveryRange ==
    LineDone =>
        /\ StateSet =>
               DedupOf(dates,
                       AnchoredDates
                           \o EveryRange(finditer("RANGE_RE", line), current_month, current_year))
        /\ (~ StateSet) => DedupOf(dates, AnchoredDates)
        /\ (line = TwoRangesLine) =>
               dates = IF StateSet
                       THEN RealDays(current_year, current_month, 1, 2)
                                \o RealDays(current_year, current_month, 4, 5)
                       ELSE <<>>
        /\ (line = AprilMarchLine) =>
               dates = << [year |-> 2025, month |-> 3, day |-> 5] >>
                           \o RealDays(2025, 3, 10, 14) \o RealDays(2025, 4, 10, 14)
        /\ (line = NumericLine(3, 5, <<"2", "5">>, <<" ", "1", "0", "-", "1", "2">>)) =>
               dates = << [year |-> 2025, month |-> 3, day |-> 5] >>
                           \o RealDays(2025, 3, 10, 12)
                           \o (IF StateSet
                               THEN RealDays(current_year, current_month, 10, 12)
                               ELSE <<>>)

\* "1-2 and 4-5" under "March 2025" has given the days of both ranges
C11_Witness ==
    /\ LineDone
    /\ line = TwoRangesLine
    /\ current_month = 3
    /\ current_year = 2025
    /\ dates = RealDays(2025, 3, 1, 2) \o RealDays(2025, 3, 4, 5)

\* "3/5/25 10-12" under "feb 2024" has given 10..12 February 2024 as well
C11_WitnessAnchored ==
    /\ LineDone
    /\ line = NumericLine(3, 5, <<"2", "5">>, <<" ", "1", "0", "-", "1", "2">>)
    /\ current_month = 2
    /\ current_year = 2024
    /\ Len(dates) = 7
    /\ dates[7] = [year |-> 2024, month |-> 2, day |-> 12]

\* C11 (as claimed): the fallback expands at most one range of a line, and none
\* that a month-name or numeric match of the line has expanded: a line of two
\* ranges gets the days of one of them only, and a range expanded under an
\* inline month or numeric date gets no days in the page's month.
C11_FallbackAtMostOnce ==
    LineDone =>
        /\ (line = TwoRangesLine /\ StateSet) =>
               \/ dates = RealDays(current_year, current_month, 1, 2)
               \/ dates = RealDays(current_year, current_month, 4, 5)
        /\ (line = TwoRangesLine /\ ~ StateSet) => dates = <<>>
        /\ (line = AprilMarchLine) =>
               dates = << [year |-> 2025, month |-> 3, day |-> 5] >>
                           \o RealDays(2025, 3, 10, 14)
        /\ (line = NumericLine(3, 5, <<"2", "5">>, <<" ", "1", "0", "-", "1", "2">>)) =>
               dates = << [year |-> 2025, month |-> 3, day |-> 5] >>
                           \o RealDays(2025, 3, 10, 12)

\* the dates ds without the day d
WithoutDay(ds, d) == SelectSeq(ds, LAMBDA x : x.day # d)

\* C12 (as amended): a month-name-first match "<Month> <Day>, <Year>" followed
\* later on the line by a range D1-D2 gives the matched day, when it is a real
\* date, and after it the real days of the range in the match's month and
\* year; the matched day is given whether or not it lies in the range ("March
\* 5, 2025 10-14" gives 5 March and then 10..14 March 2025).
C12_DayAndTrailingRange ==
    LineDone =>
        \A m \in RangeMonths :
            (line[1] = m) =>
                \A d \in TrailDays, y \in RangeYears, r \in TrailRanges :
                    (line = MonthDayRangeLine(m, d, y, r[1], r[2]))
                        => dates = RealDays(y, MONTHS[lower(m)], d, d)
                                       \o WithoutDay(RealDays(y, MONTHS[lower(m)], r[1], r[2]), d)

\* "March 5, 2025 10-14" has given 5 March and then 10..14 March 2025
C12_Witness ==
    /\ LineDone
    /\ line = MonthDayRangeLine("March", 5, 2025, 10, 14)
    /\ dates = << [year |-> 2025, month |-> 3, day |-> 5] >> \o RealDays(2025, 3, 10, 14)

\* C12 (as claimed): the range is given instead of the matched day, which appears
\* only when it lies in the range ("March 5, 2025 10-14" gives 10..14 March 2025
\* and not 5 March).
C12_RangeInsteadOfDay ==
    LineDone =>
        \A m \in RangeMonths :
            (line[1] = m) =>
                \A d \in TrailDays, y \in RangeYears, r \in TrailRanges :
                    (r[1] <= r[2] /\ line = MonthDayRangeLine(m, d, y, r[1], r[2]))
                        => dates = RealDays(y, MONTHS[lower(m)], r[1], r[2])

\* the year the numeric grammar is to give a date whose year token is y: 2000 + YY
\* for two digits, the token's own value for four, the page's year otherwise
NumericYearOf(y) ==
    CASE Len(y) = 2 -> 2000 + int(y)
      [] Len(y) = 4 -> int(y)
      [] OTHER -> current_year

\* C13: a numeric date M/D[/Y] takes its year from the token Y only when Y has two
\* digits (2000 + YY) or four (its own value), and from the page's year without
\* one; without either it gives nothing. No date has its year from a token of
\* three digits.
C13_NumericYear ==
    LineDone =>
        \A m \in NumericMonths :
            (line[1] = Str(m)[1]) =>
                \A d \in NumericDays, y \in YearTokens :
                    (line = NumericLine(m, d, y, <<>>)) =>
                        /\ dates = RealDays(NumericYearOf(y), m, d, d)
                        /\ (Len(y) = 3) => \A k \in 1..Len(dates) : dates[k].year # int(y)

\* the same for the year tokens of two digits, of four digits from 0100 on, and
\* for no token
C13_TwoOrFourDigits ==
    LineDone =>
        \A m \in NumericMonths :
            (line[1] = Str(m)[1]) =>
                \A d \in NumericDays, y \in YearTokens :
                    ( /\ line = NumericLine(m, d, y, <<>>)
                      /\ Len(y) # 3
                      /\ Len(y) = 4 => int(y) >= 100 )
                    => dates = RealDays(NumericYearOf(y), m, d, d)

\* the symbols from a to b of l stand alone: no letter or digit touches them
Bare(l, a, b) ==
    /\ (a = 1 \/ l[a - 1] \in Whitespace \cup Punct)
    /\ (b = Len(l) \/ l[b + 1] \in Whitespace \cup Punct)

\* where a month name stands alone on l
MonthPositions(l) == { k \in 1..Len(l) : lower(l[k]) \in DOMAIN MONTHS /\ Bare(l, k, k) }

\* where a bare token 20xx starts on l
YearPositions(l) ==
    { k \in 1..(Len(l) - 3) :
          /\ l[k] = "2"
          /\ l[k + 1] = "0"
          /\ l[k + 2] \in Digit
          /\ l[k + 3] \in Digit
          /\ Bare(l, k, k + 3) }

\* the month of the first month name standing alone on l, None without one
FirstMonthOf(l) ==
    IF MonthPositions(l) = {} THEN None ELSE MONTHS[lower(l[Min(MonthPositions(l))])]

\* the first bare 20xx of l, None without one
FirstYearOf(l) ==
    IF YearPositions(l) = {} THEN None
    ELSE 2000 + 10 * DigitValue(l[Min(YearPositions(l)) + 2])
              + DigitValue(l[Min(YearPositions(l)) + 3])

\* a step that reads one raw line of the page
LineRead == pc = "lines" /\ raw_lines # <<>> /\ raw_lines' = Tail(raw_lines)

\* C14: reading a non-empty line sets current_month to the month of the line's
\* first standalone month name and current_year to its first bare 20xx, each
\* left as it was when the line has none, whether or not the line gives a date
\* and before its grammars run; an empty line and the end of the page change
\* neither. Both stay unset or in 1..12 and 2000..2099, and within a page neither
\* goes back to unset.
C14_StateFrame ==
    [][ /\ (LineRead /\ line' # <<>>) =>
               /\ current_month' = LastSet(current_month, FirstMonthOf(line'))
               /\ current_year' = LastSet(current_year, FirstYearOf(line'))
        /\ (LineRead /\ line' = <<>>) => UNCHANGED <<current_month, current_year>>
        /\ (~ LineRead /\ page_index' = page_index)
               => UNCHANGED <<current_month, current_year>>
        /\ (page_index' = page_index) =>
               /\ (current_month # None) => current_month' # None
               /\ (current_year # None) => current_year' # None
        /\ current_month' \in {None} \cup (1..12)
        /\ current_year' \in {None} \cup (2000..2099)
        /\ ( /\ LineRead
             /\ current_month = None
             /\ line' = MonthRangeLine("March", 10, 14, 2025) )
           => dates' = RealDays(2025, 3, 10, 14)
      ]_vars

\* under "feb 2024" the line "2025 Calendar" has given no date, has set the year
\* and has left the month
C14_Witness ==
    /\ LineDone
    /\ line = <<"2", "0", "2", "5", " ", "Calendar">>
    /\ dates = <<>>
    /\ current_month = 2
    /\ current_year = 2025

====
